---- MODULE Spec2Model ----
(***************************************************************************)
(* Model of univac-1/ai-info-rss-feed: the feed registry                   *)
(* (src/resources/feed-info-list.ts) and the site configuration            *)
(* (src/common/constants.ts).                                              *)
(*                                                                         *)
(* A JavaScript string is modelled as the sequence of its UTF-16 code      *)
(* units, so that concatenation, prefixes, pattern matching and ordering   *)
(* are computed on the characters.  Objects and arrays live in a heap and  *)
(* are referred to by address, so that aliasing and mutation through a     *)
(* reference are visible.                                                  *)
(***************************************************************************)
EXTENDS Integers, Sequences, FiniteSets, TLC

VARIABLES
  heap,            \* [objs: objects by address, arrs: arrays by address]
  feedInfoTuples,  \* address of the array passed to createFeedInfoList
  calls,           \* outcome of every finished call of createFeedInfoList
  FEED_INFO_LIST,  \* address of the exported array, 0 before the module is evaluated
  config,          \* <<>> before constants.ts is evaluated, then <<default export>>
  nOps             \* number of consumer operations performed so far

vars == <<heap, feedInfoTuples, calls, FEED_INFO_LIST, config, nOps>>

(***************************************************************************)
(* Bounds                                                                  *)
(***************************************************************************)
MaxLen   == 2   \* longest argument list given to createFeedInfoList
MaxCalls == 2   \* calls of createFeedInfoList on one argument list
MaxOps   == 2   \* consumer operations on the exported list
MaxMut   == 1   \* changes a caller makes to the lists it got back

(***************************************************************************)
(* Characters (UTF-16 code units)                                          *)
(***************************************************************************)
SLASH == 47
DOT   == 46

IsPrefix(p, s) ==
  /\ Len(p) <= Len(s)
  /\ \A k \in 1..Len(p) : s[k] = p[k]

(***************************************************************************)
(* feed-info-list.ts                                                       *)
(***************************************************************************)

\* type ValidUrl = `${'http' | 'https'}://${string}.${string}`
\* A string inhabits the template literal type when it starts with one of the
\* two scheme prefixes and a '.' occurs somewhere after the prefix; each
\* ${string} hole may be empty.
ValidUrl(s) ==
  \E scheme \in { <<104, 116, 116, 112>>,            \* 'http'
                  <<104, 116, 116, 112, 115>> } :    \* 'https'
    LET prefix == scheme \o <<58, 47, 47>>           \* '://'
    IN /\ IsPrefix(prefix, s)
       /\ \E k \in (Len(prefix) + 1)..Len(s) : s[k] = DOT

\* The list with the label of the ninth entry also given to the eighth.
FEED_INFO_TUPLES_DuplicateLabel ==
  <<
    \* ['ITmedia AI+', 'https://rss.itmedia.co.jp/rss/2.0/aiplus.xml']
    [label |-> <<73, 84, 109, 101, 100, 105, 97, 32, 65, 73, 43>>,
     url   |-> <<104, 116, 116, 112, 115, 58, 47, 47, 114, 115, 115, 46, 105, 116, 109, 101,
                 100, 105, 97, 46, 99, 111, 46, 106, 112, 47, 114, 115, 115, 47, 50, 46,
                 48, 47, 97, 105, 112, 108, 117, 115, 46, 120, 109, 108>>],
    \* ['Zenn（機械学習タグ）', 'https://zenn.dev/topics/機械学習/feed']
    [label |-> <<90, 101, 110, 110, 65288, 27231, 26800, 23398, 32722, 12479, 12464, 65289>>,
     url   |-> <<104, 116, 116, 112, 115, 58, 47, 47, 122, 101, 110, 110, 46, 100, 101, 118,
                 47, 116, 111, 112, 105, 99, 115, 47, 27231, 26800, 23398, 32722, 47, 102, 101, 101,
                 100>>],
    \* ['Zenn（AIタグ）', 'https://zenn.dev/topics/ai/feed']
    [label |-> <<90, 101, 110, 110, 65288, 65, 73, 12479, 12464, 65289>>,
     url   |-> <<104, 116, 116, 112, 115, 58, 47, 47, 122, 101, 110, 110, 46, 100, 101, 118,
                 47, 116, 111, 112, 105, 99, 115, 47, 97, 105, 47, 102, 101, 101, 100>>],
    \* ['Zenn（生成AIタグ）', 'https://zenn.dev/topics/生成ai/feed']
    [label |-> <<90, 101, 110, 110, 65288, 29983, 25104, 65, 73, 12479, 12464, 65289>>,
     url   |-> <<104, 116, 116, 112, 115, 58, 47, 47, 122, 101, 110, 110, 46, 100, 101, 118,
                 47, 116, 111, 112, 105, 99, 115, 47, 29983, 25104, 97, 105, 47, 102, 101, 101,
                 100>>],
    \* ['Zenn（DLタグ）', 'https://zenn.dev/topics/deeplearning/feed']
    [label |-> <<90, 101, 110, 110, 65288, 68, 76, 12479, 12464, 65289>>,
     url   |-> <<104, 116, 116, 112, 115, 58, 47, 47, 122, 101, 110, 110, 46, 100, 101, 118,
                 47, 116, 111, 112, 105, 99, 115, 47, 100, 101, 101, 112, 108, 101, 97, 114,
                 110, 105, 110, 103, 47, 102, 101, 101, 100>>],
    \* ['Zenn（LLMタグ）', 'https://zenn.dev/topics/llm/feed']
    [label |-> <<90, 101, 110, 110, 65288, 76, 76, 77, 12479, 12464, 65289>>,
     url   |-> <<104, 116, 116, 112, 115, 58, 47, 47, 122, 101, 110, 110, 46, 100, 101, 118,
                 47, 116, 111, 112, 105, 99, 115, 47, 108, 108, 109, 47, 102, 101, 101, 100>>],
    \* ['Qiita（機械学習タグ）', 'https://qiita.com/tags/機械学習/feed']
    [label |-> <<81, 105, 105, 116, 97, 65288, 27231, 26800, 23398, 32722, 12479, 12464, 65289>>,
     url   |-> <<104, 116, 116, 112, 115, 58, 47, 47, 113, 105, 105, 116, 97, 46, 99, 111,
                 109, 47, 116, 97, 103, 115, 47, 27231, 26800, 23398, 32722, 47, 102, 101, 101, 100>>],
    \* ['Qiita（生成AIタグ）', 'https://qiita.com/tags/AI/feed']
    [label |-> <<81, 105, 105, 116, 97, 65288, 29983, 25104, 65, 73, 12479, 12464, 65289>>,
     url   |-> <<104, 116, 116, 112, 115, 58, 47, 47, 113, 105, 105, 116, 97, 46, 99, 111,
                 109, 47, 116, 97, 103, 115, 47, 65, 73, 47, 102, 101, 101, 100>>],
    \* ['Qiita（生成AIタグ）', 'https://qiita.com/tags/生成AI/feed']
    [label |-> <<81, 105, 105, 116, 97, 65288, 29983, 25104, 65, 73, 12479, 12464, 65289>>,
     url   |-> <<104, 116, 116, 112, 115, 58, 47, 47, 113, 105, 105, 116, 97, 46, 99, 111,
                 109, 47, 116, 97, 103, 115, 47, 29983, 25104, 65, 73, 47, 102, 101, 101, 100>>],
    \* ['Qiita（DLタグ）', 'https://qiita.com/tags/DL/feed']
    [label |-> <<81, 105, 105, 116, 97, 65288, 68, 76, 12479, 12464, 65289>>,
     url   |-> <<104, 116, 116, 112, 115, 58, 47, 47, 113, 105, 105, 116, 97, 46, 99, 111,
                 109, 47, 116, 97, 103, 115, 47, 68, 76, 47, 102, 101, 101, 100>>],
    \* ['Qiita（LLMタグ）', 'https://qiita.com/tags/LLM/feed']
    [label |-> <<81, 105, 105, 116, 97, 65288, 76, 76, 77, 12479, 12464, 65289>>,
     url   |-> <<104, 116, 116, 112, 115, 58, 47, 47, 113, 105, 105, 116, 97, 46, 99, 111,
                 109, 47, 116, 97, 103, 115, 47, 76, 76, 77, 47, 102, 101, 101, 100>>]
  >>

\* The argument of the single call of createFeedInfoList, lines 28-41.
FEED_INFO_TUPLES ==
  <<
    \* ['ITmedia AI+', 'https://rss.itmedia.co.jp/rss/2.0/aiplus.xml']
    [label |-> <<73, 84, 109, 101, 100, 105, 97, 32, 65, 73, 43>>,
     url   |-> <<104, 116, 116, 112, 115, 58, 47, 47, 114, 115, 115, 46, 105, 116, 109, 101,
                 100, 105, 97, 46, 99, 111, 46, 106, 112, 47, 114, 115, 115, 47, 50, 46,
                 48, 47, 97, 105, 112, 108, 117, 115, 46, 120, 109, 108>>],
    \* ['Zenn（機械学習タグ）', 'https://zenn.dev/topics/機械学習/feed']
    [label |-> <<90, 101, 110, 110, 65288, 27231, 26800, 23398, 32722, 12479, 12464, 65289>>,
     url   |-> <<104, 116, 116, 112, 115, 58, 47, 47, 122, 101, 110, 110, 46, 100, 101, 118,
                 47, 116, 111, 112, 105, 99, 115, 47, 27231, 26800, 23398, 32722, 47, 102, 101, 101,
                 100>>],
    \* ['Zenn（AIタグ）', 'https://zenn.dev/topics/ai/feed']
    [label |-> <<90, 101, 110, 110, 65288, 65, 73, 12479, 12464, 65289>>,
     url   |-> <<104, 116, 116, 112, 115, 58, 47, 47, 122, 101, 110, 110, 46, 100, 101, 118,
                 47, 116, 111, 112, 105, 99, 115, 47, 97, 105, 47, 102, 101, 101, 100>>],
    \* ['Zenn（生成AIタグ）', 'https://zenn.dev/topics/生成ai/feed']
    [label |-> <<90, 101, 110, 110, 65288, 29983, 25104, 65, 73, 12479, 12464, 65289>>,
     url   |-> <<104, 116, 116, 112, 115, 58, 47, 47, 122, 101, 110, 110, 46, 100, 101, 118,
                 47, 116, 111, 112, 105, 99, 115, 47, 29983, 25104, 97, 105, 47, 102, 101, 101,
                 100>>],
    \* ['Zenn（DLタグ）', 'https://zenn.dev/topics/deeplearning/feed']
    [label |-> <<90, 101, 110, 110, 65288, 68, 76, 12479, 12464, 65289>>,
     url   |-> <<104, 116, 116, 112, 115, 58, 47, 47, 122, 101, 110, 110, 46, 100, 101, 118,
                 47, 116, 111, 112, 105, 99, 115, 47, 100, 101, 101, 112, 108, 101, 97, 114,
                 110, 105, 110, 103, 47, 102, 101, 101, 100>>],
    \* ['Zenn（LLMタグ）', 'https://zenn.dev/topics/llm/feed']
    [label |-> <<90, 101, 110, 110, 65288, 76, 76, 77, 12479, 12464, 65289>>,
     url   |-> <<104, 116, 116, 112, 115, 58, 47, 47, 122, 101, 110, 110, 46, 100, 101, 118,
                 47, 116, 111, 112, 105, 99, 115, 47, 108, 108, 109, 47, 102, 101, 101, 100>>],
    \* ['Qiita（機械学習タグ）', 'https://qiita.com/tags/機械学習/feed']
    [label |-> <<81, 105, 105, 116, 97, 65288, 27231, 26800, 23398, 32722, 12479, 12464, 65289>>,
     url   |-> <<104, 116, 116, 112, 115, 58, 47, 47, 113, 105, 105, 116, 97, 46, 99, 111,
                 109, 47, 116, 97, 103, 115, 47, 27231, 26800, 23398, 32722, 47, 102, 101, 101, 100>>],
    \* ['Qiita（AIタグ）', 'https://qiita.com/tags/AI/feed']
    [label |-> <<81, 105, 105, 116, 97, 65288, 65, 73, 12479, 12464, 65289>>,
     url   |-> <<104, 116, 116, 112, 115, 58, 47, 47, 113, 105, 105, 116, 97, 46, 99, 111,
                 109, 47, 116, 97, 103, 115, 47, 65, 73, 47, 102, 101, 101, 100>>],
    \* ['Qiita（生成AIタグ）', 'https://qiita.com/tags/生成AI/feed']
    [label |-> <<81, 105, 105, 116, 97, 65288, 29983, 25104, 65, 73, 12479, 12464, 65289>>,
     url   |-> <<104, 116, 116, 112, 115, 58, 47, 47, 113, 105, 105, 116, 97, 46, 99, 111,
                 109, 47, 116, 97, 103, 115, 47, 29983, 25104, 65, 73, 47, 102, 101, 101, 100>>],
    \* ['Qiita（DLタグ）', 'https://qiita.com/tags/DL/feed']
    [label |-> <<81, 105, 105, 116, 97, 65288, 68, 76, 12479, 12464, 65289>>,
     url   |-> <<104, 116, 116, 112, 115, 58, 47, 47, 113, 105, 105, 116, 97, 46, 99, 111,
                 109, 47, 116, 97, 103, 115, 47, 68, 76, 47, 102, 101, 101, 100>>],
    \* ['Qiita（LLMタグ）', 'https://qiita.com/tags/LLM/feed']
    [label |-> <<81, 105, 105, 116, 97, 65288, 76, 76, 77, 12479, 12464, 65289>>,
     url   |-> <<104, 116, 116, 112, 115, 58, 47, 47, 113, 105, 105, 116, 97, 46, 99, 111,
                 109, 47, 116, 97, 103, 115, 47, 76, 76, 77, 47, 102, 101, 101, 100>>]
  >>

EmptyHeap == [objs |-> <<>>, arrs |-> <<>>]

\* Object literal: a new object at a fresh address.
AllocObj(h, o) == [h EXCEPT !.objs = Append(h.objs, o)]

\* Array literal of object literals: the elements are allocated in order,
\* then the array that refers to them.
AllocArray(h, elems) ==
  [objs |-> h.objs \o elems,
   arrs |-> Append(h.arrs, [k \in 1..Len(elems) |-> Len(h.objs) + k])]

\* The records an array refers to, in order.
Deep(h, a) == [k \in 1..Len(h.arrs[a]) |-> h.objs[h.arrs[a][k]]]

\* Loop body with the two fields filled from the wrong variables.
PushFeedInfo_SwapFields(h, list, t) ==
  LET label == h.objs[t].label
      url   == h.objs[t].url
      h1    == AllocObj(h, [label |-> url, url |-> label])
  IN [h1 EXCEPT !.arrs[list] = Append(@, Len(h1.objs))]

\* Loop body that pushes the tuple it was given instead of a new record.
PushFeedInfo_Alias(h, list, t) ==
  [h EXCEPT !.arrs[list] = Append(@, t)]

\* Loop body, lines 13-18: destructure the tuple at address t and push a
\* new record { label, url } on the array at address list.
PushFeedInfo(h, list, t) ==
  LET label == h.objs[t].label
      url   == h.objs[t].url
      h1    == AllocObj(h, [label |-> label, url |-> url])
  IN [h1 EXCEPT !.arrs[list] = Append(@, Len(h1.objs))]

\* Loop that stops one element early.
RECURSIVE ForOf_DropLast(_, _, _, _)
ForOf_DropLast(h, list, tuples, k) ==
  IF k >= Len(h.arrs[tuples])
  THEN h
  ELSE ForOf_DropLast(PushFeedInfo(h, list, h.arrs[tuples][k]), list, tuples, k + 1)

\* for (const [label, url] of feedInfoTuples), from index k on.
RECURSIVE ForOf(_, _, _, _)
ForOf(h, list, tuples, k) ==
  IF k > Len(h.arrs[tuples])
  THEN h
  ELSE ForOf(PushFeedInfo(h, list, h.arrs[tuples][k]), list, tuples, k + 1)

\* createFeedInfoList, lines 10-21.  The function has no throw statement:
\* every call completes with kind "return".
createFeedInfoList(h, tuples) ==
  LET h0           == [h EXCEPT !.arrs = Append(@, <<>>)]  \* const feedInfoList = []
      feedInfoList == Len(h0.arrs)
  IN [heap  |-> ForOf(h0, feedInfoList, tuples, 1),
      kind  |-> "return",
      value |-> feedInfoList]

(***************************************************************************)
(* constants.ts                                                            *)
(***************************************************************************)

\* 'https://univac-1.github.io/ai-info-rss-feed', line 1
siteUrlStem ==
  <<104, 116, 116, 112, 115, 58, 47, 47, 117, 110, 105, 118, 97, 99, 45, 49,
    46, 103, 105, 116, 104, 117, 98, 46, 105, 111, 47, 97, 105, 45, 105, 110,
    102, 111, 45, 114, 115, 115, 45, 102, 101, 101, 100>>

\* `${siteUrlStem}/`, line 2
siteUrl == siteUrlStem \o <<SLASH>>

\* Feed URLs whose suffix starts with a slash of its own.
feedUrls_ExtraSlash ==
  [atom |-> siteUrl \o <<47, 102, 101, 101, 100, 115, 47, 97, 116, 111, 109, 46, 120, 109, 108>>,
   rss  |-> siteUrl \o <<47, 102, 101, 101, 100, 115, 47, 114, 115, 115, 46, 120, 109, 108>>,
   json |-> siteUrl \o <<47, 102, 101, 101, 100, 115, 47, 102, 101, 101, 100, 46, 106, 115, 111, 110>>]

\* feedUrls, lines 18-22
feedUrls ==
  [atom |-> siteUrl \o <<102, 101, 101, 100, 115, 47, 97, 116, 111, 109, 46, 120, 109, 108>>,      \* `${siteUrl}feeds/atom.xml`
   rss  |-> siteUrl \o <<102, 101, 101, 100, 115, 47, 114, 115, 115, 46, 120, 109, 108>>,          \* `${siteUrl}feeds/rss.xml`
   json |-> siteUrl \o <<102, 101, 101, 100, 115, 47, 102, 101, 101, 100, 46, 106, 115, 111, 110>>] \* `${siteUrl}feeds/feed.json`

\* The aggregation window with the wrong operator.
aggregateFeedDurationInHours_Minus == 8 - 24

\* Numeric settings, lines 42-50
feedFetchConcurrency            == 50
feedOgFetchConcurrency          == 20
aggregateFeedDurationInHours    == 8 * 24
maxFeedDescriptionLength        == 200
maxFeedContentLength            == 500
processImageConcurrency         == 50
eleventyFetchConcurrency        == 50
fetchedFeedCacheDurationInHours == 1
fetchedOgCacheDurationInHours   == 24

\* export default { ... }, lines 4-51: the site URL fields, the feed URLs and
\* the numeric settings.  The remaining fields are string literals that no
\* other field is derived from.
DefaultExport ==
  [siteUrl                         |-> <<>> \o siteUrl,   \* `${siteUrl}`
   siteUrlStem                     |-> siteUrlStem,
   feedUrls                        |-> feedUrls,
   feedFetchConcurrency            |-> feedFetchConcurrency,
   feedOgFetchConcurrency          |-> feedOgFetchConcurrency,
   aggregateFeedDurationInHours    |-> aggregateFeedDurationInHours,
   maxFeedDescriptionLength        |-> maxFeedDescriptionLength,
   maxFeedContentLength            |-> maxFeedContentLength,
   processImageConcurrency         |-> processImageConcurrency,
   eleventyFetchConcurrency        |-> eleventyFetchConcurrency,
   fetchedFeedCacheDurationInHours |-> fetchedFeedCacheDurationInHours,
   fetchedOgCacheDurationInHours   |-> fetchedOgCacheDurationInHours]

(***************************************************************************)
(* Values used by callers and consumers                                    *)
(***************************************************************************)
LabelPool == { <<65>>, <<66>> }                                        \* 'A', 'B'

UrlPool ==
  { <<104, 116, 116, 112, 58, 47, 47, 97, 46, 98>>,                    \* 'http://a.b'
    <<104, 116, 116, 112, 115, 58, 47, 47, 97, 47, 98, 46, 99>>,       \* 'https://a/b.c'
    <<97, 46, 98>> }                                                   \* 'a.b'

\* FeedInfoTuple = [label: string, url: ValidUrl], line 3: the tuples the
\* type checker lets a caller write.
FeedInfoTuple ==
  { [label |-> l, url |-> u] : l \in LabelPool, u \in { s \in UrlPool : ValidUrl(s) } }

\* FeedInfoTuple[] up to MaxLen entries.
TupleLists == UNION { [1..n -> FeedInfoTuple] : n \in 0..MaxLen }

(***************************************************************************)
(* Module evaluation and consumers of the exported list                    *)
(***************************************************************************)
Init ==
  /\ heap = EmptyHeap
  /\ feedInfoTuples = 0
  /\ calls = <<>>
  /\ FEED_INFO_LIST = 0
  /\ config = <<>>
  /\ nOps = 0

\* Evaluation of feed-info-list.ts: the array literal of lines 28-41 is
\* built, createFeedInfoList is applied to it and the result is exported.
EvalFeedInfoList ==
  /\ FEED_INFO_LIST = 0
  /\ LET h == AllocArray(heap, FEED_INFO_TUPLES)
         r == createFeedInfoList(h, Len(h.arrs))
     IN /\ heap' = r.heap
        /\ feedInfoTuples' = Len(h.arrs)
        /\ calls' = Append(calls, [kind |-> r.kind, value |-> r.value])
        /\ FEED_INFO_LIST' = r.value
  /\ UNCHANGED <<config, nOps>>

\* Evaluation of constants.ts.
EvalConstants ==
  /\ config = <<>>
  /\ config' = <<DefaultExport>>
  /\ UNCHANGED <<heap, feedInfoTuples, calls, FEED_INFO_LIST, nOps>>

\* The exported value has type FeedInfo[] (line 28) and FeedInfo has plain
\* fields (lines 5-8): the array and its records are ordinary mutable
\* objects, and whoever holds the reference can apply these operations.
ArrayPush(a, o) ==
  /\ LET h1 == AllocObj(heap, o)
     IN heap' = [h1 EXCEPT !.arrs[a] = Append(@, Len(h1.objs))]
  /\ nOps' = nOps + 1
  /\ UNCHANGED <<feedInfoTuples, calls, FEED_INFO_LIST, config>>

ArrayPop(a) ==
  /\ Len(heap.arrs[a]) > 0
  /\ heap' = [heap EXCEPT !.arrs[a] = SubSeq(@, 1, Len(@) - 1)]
  /\ nOps' = nOps + 1
  /\ UNCHANGED <<feedInfoTuples, calls, FEED_INFO_LIST, config>>

SetLabel(a, i, v) ==
  /\ i \in 1..Len(heap.arrs[a])
  /\ heap' = [heap EXCEPT !.objs[heap.arrs[a][i]].label = v]
  /\ nOps' = nOps + 1
  /\ UNCHANGED <<feedInfoTuples, calls, FEED_INFO_LIST, config>>

SetUrl(a, i, v) ==
  /\ i \in 1..Len(heap.arrs[a])
  /\ heap' = [heap EXCEPT !.objs[heap.arrs[a][i]].url = v]
  /\ nOps' = nOps + 1
  /\ UNCHANGED <<feedInfoTuples, calls, FEED_INFO_LIST, config>>

ConsumerPush ==
  /\ FEED_INFO_LIST # 0
  /\ nOps < MaxOps
  /\ \E o \in FeedInfoTuple : ArrayPush(FEED_INFO_LIST, o)

ConsumerPop ==
  /\ FEED_INFO_LIST # 0
  /\ nOps < MaxOps
  /\ ArrayPop(FEED_INFO_LIST)

ConsumerSetLabel ==
  /\ FEED_INFO_LIST # 0
  /\ nOps < MaxOps
  /\ \E i \in 1..Len(heap.arrs[FEED_INFO_LIST]), v \in LabelPool :
       SetLabel(FEED_INFO_LIST, i, v)

ConsumerSetUrl ==
  /\ FEED_INFO_LIST # 0
  /\ nOps < MaxOps
  /\ \E i \in 1..Len(heap.arrs[FEED_INFO_LIST]), v \in { s \in UrlPool : ValidUrl(s) } :
       SetUrl(FEED_INFO_LIST, i, v)

Next ==
  \/ EvalFeedInfoList
  \/ EvalConstants
  \/ ConsumerPush
  \/ ConsumerPop
  \/ ConsumerSetLabel
  \/ ConsumerSetUrl

Spec == Init /\ [][Next]_vars

(***************************************************************************)
(* createFeedInfoList as a function of its argument                        *)
(***************************************************************************)
InitCall ==
  /\ \E tuples \in TupleLists : heap = AllocArray(EmptyHeap, tuples)
  /\ feedInfoTuples = 1
  /\ calls = <<>>
  /\ FEED_INFO_LIST = 0
  /\ config = <<>>
  /\ nOps = 0

Call ==
  /\ Len(calls) < MaxCalls
  /\ LET r == createFeedInfoList(heap, feedInfoTuples)
     IN /\ heap' = r.heap
        /\ calls' = Append(calls, [kind |-> r.kind, value |-> r.value])
  /\ UNCHANGED <<feedInfoTuples, FEED_INFO_LIST, config, nOps>>

\* The caller changes a list it got back.
ResultPush ==
  /\ nOps < MaxMut
  /\ \E c \in DOMAIN calls, o \in FeedInfoTuple : ArrayPush(calls[c].value, o)

ResultPop ==
  /\ nOps < MaxMut
  /\ \E c \in DOMAIN calls : ArrayPop(calls[c].value)

ResultSetLabel ==
  /\ nOps < MaxMut
  /\ \E c \in DOMAIN calls, v \in LabelPool :
       \E i \in 1..Len(heap.arrs[calls[c].value]) : SetLabel(calls[c].value, i, v)

ResultSetUrl ==
  /\ nOps < MaxMut
  /\ \E c \in DOMAIN calls, v \in { s \in UrlPool : ValidUrl(s) } :
       \E i \in 1..Len(heap.arrs[calls[c].value]) : SetUrl(calls[c].value, i, v)

NextCall ==
  \/ Call
  \/ ResultPush
  \/ ResultPop
  \/ ResultSetLabel
  \/ ResultSetUrl

SpecCall == InitCall /\ [][NextCall]_vars

(***************************************************************************)
(* Properties                                                              *)
(***************************************************************************)

\* Characters that '.' does not match in a pattern: LF, CR, LS, PS.
LineTerminators == {10, 13, 8232, 8233}

\* The URL shape ^(https?)://[^/]+\.[^/]+/?.*$ : a scheme prefix, one or
\* more non-slash characters, a dot, one or more non-slash characters, an
\* optional slash, and a rest without line terminators.
MatchesUrlShape(s) ==
  \E prefix \in { <<104, 116, 116, 112, 58, 47, 47>>,            \* 'http://'
                  <<104, 116, 116, 112, 115, 58, 47, 47>> } :    \* 'https://'
    /\ IsPrefix(prefix, s)
    /\ \E d \in (Len(prefix) + 2)..Len(s) :
         /\ s[d] = DOT
         /\ \A k \in (Len(prefix) + 1)..(d - 1) : s[k] # SLASH
         /\ \E e \in (d + 1)..Len(s) :
              /\ \A k \in (d + 1)..e : s[k] # SLASH
              /\ \A k \in (e + 1)..Len(s) : s[k] \notin LineTerminators

\* a sorts before or equal to b, comparing code units from the left.
LabelLE(a, b) ==
  \/ IsPrefix(a, b)
  \/ \E k \in 1..Len(a) :
       /\ k <= Len(b)
       /\ \A j \in 1..(k - 1) : a[j] = b[j]
       /\ a[k] < b[k]

\* No two adjacent slashes at or after position from.
NoDoubledSlash(s, from) ==
  \A k \in from..(Len(s) - 1) : ~(s[k] = SLASH /\ s[k + 1] = SLASH)

\* The exported list as createFeedInfoList left it.
Exported == FEED_INFO_LIST # 0 /\ nOps = 0

ExportedList == Deep(heap, FEED_INFO_LIST)

Argument == Deep(heap, feedInfoTuples)

\* C1: every entry of the exported FEED_INFO_LIST has a url of the shape
\* ^(https?)://[^/]+\.[^/]+/?.*$ .
C1_ExportedUrlsMatchShape ==
  Exported => \A k \in DOMAIN ExportedList : MatchesUrlShape(ExportedList[k].url)

C1_Witness ==
  /\ Exported
  /\ Len(ExportedList) = 11
  /\ ExportedList[2].url = FEED_INFO_TUPLES[2].url

\* C2: a call of createFeedInfoList whose argument holds a url that violates
\* the shape fails with ConfigurationError and returns no list.
C2_InvalidUrlRejected ==
  (\E k \in DOMAIN Argument : ~MatchesUrlShape(Argument[k].url))
    => \A c \in DOMAIN calls : calls[c].kind = "ConfigurationError"

\* C3: createFeedInfoList returns a list of the length of its argument whose
\* i-th record has the label and the url of the i-th tuple.
C3_OrderAndContentPreserved ==
  [][Len(calls') > Len(calls) =>
       /\ calls'[Len(calls')].kind = "return"
       /\ Len(heap'.arrs[calls'[Len(calls')].value]) = Len(heap.arrs[feedInfoTuples])
       /\ \A i \in 1..Len(heap.arrs[feedInfoTuples]) :
            /\ Deep(heap', calls'[Len(calls')].value)[i].label = Argument[i].label
            /\ Deep(heap', calls'[Len(calls')].value)[i].url = Argument[i].url]_vars

C3_Witness ==
  /\ FEED_INFO_LIST = 0
  /\ Len(calls) = 1
  /\ nOps = 0
  /\ Len(Argument) = 2
  /\ Argument[1] # Argument[2]
  /\ Deep(heap, calls[1].value) = Argument

\* C4: a call of createFeedInfoList whose argument holds the same label
\* twice is rejected with ConfigurationError.
C4_DuplicateLabelRejected ==
  (\E i, j \in DOMAIN Argument : i # j /\ Argument[i].label = Argument[j].label)
    => \A c \in DOMAIN calls : calls[c].kind = "ConfigurationError"

\* C5: any two entries of the exported FEED_INFO_LIST at distinct positions
\* have different labels.
C5_ExportedLabelsUnique ==
  Exported =>
    \A i, j \in DOMAIN ExportedList :
      i # j => ExportedList[i].label # ExportedList[j].label

C5_Witness ==
  /\ Exported
  /\ Len(ExportedList) = 11
  /\ Cardinality({ ExportedList[k].label : k \in DOMAIN ExportedList }) = 11

\* C6: feedUrls.atom, .rss and .json are the siteUrl field followed by
\* "feeds/" and the file name, the siteUrl field is siteUrlStem followed by
\* one "/", and no feed URL has a doubled slash after the scheme separator.
C6_FeedUrlsDerivedFromSiteUrl ==
  Len(config) = 1 =>
    LET c        == config[1]
        feeds    == <<102, 101, 101, 100, 115, 47>>                    \* 'feeds/'
        atomXml  == <<97, 116, 111, 109, 46, 120, 109, 108>>           \* 'atom.xml'
        rssXml   == <<114, 115, 115, 46, 120, 109, 108>>               \* 'rss.xml'
        feedJson == <<102, 101, 101, 100, 46, 106, 115, 111, 110>>     \* 'feed.json'
        afterScheme == Len(<<104, 116, 116, 112, 115, 58, 47, 47>>) + 1
    IN /\ c.siteUrl = c.siteUrlStem \o <<SLASH>>
       /\ c.siteUrlStem[Len(c.siteUrlStem)] # SLASH
       /\ c.feedUrls.atom = c.siteUrl \o feeds \o atomXml
       /\ c.feedUrls.rss  = c.siteUrl \o feeds \o rssXml
       /\ c.feedUrls.json = c.siteUrl \o feeds \o feedJson
       /\ \A f \in { c.feedUrls.atom, c.feedUrls.rss, c.feedUrls.json } :
            /\ IsPrefix(c.siteUrl, f)
            /\ NoDoubledSlash(f, afterScheme)

C6_Witness ==
  /\ Len(config) = 1
  /\ Len(config[1].feedUrls.atom) = Len(siteUrlStem) + 15

\* C7: every numeric setting of the site configuration is a strictly
\* positive integer.
C7_TunablesPositive ==
  Len(config) = 1 =>
    \A n \in { config[1].feedFetchConcurrency,
               config[1].feedOgFetchConcurrency,
               config[1].aggregateFeedDurationInHours,
               config[1].maxFeedDescriptionLength,
               config[1].maxFeedContentLength,
               config[1].processImageConcurrency,
               config[1].eleventyFetchConcurrency,
               config[1].fetchedFeedCacheDurationInHours,
               config[1].fetchedOgCacheDurationInHours } :
      n \in Nat /\ n > 0

C7_Witness ==
  /\ Len(config) = 1
  /\ config[1].aggregateFeedDurationInHours = 192

\* C8: once constructed, FEED_INFO_LIST keeps its length, order, labels and
\* urls whatever consumers do with it.
C8_ExportedListImmutable ==
  FEED_INFO_LIST # 0 => ExportedList = FEED_INFO_TUPLES

\* C9: createFeedInfoList leaves its argument unchanged and returns a new
\* array of new records: no step changes the argument, a call changes no
\* earlier result, and a change made through one result shows in no other.
C9_NoSideEffects ==
  [][/\ heap'.arrs[feedInfoTuples] = heap.arrs[feedInfoTuples]
     /\ Deep(heap', feedInfoTuples) = Argument
     /\ Len(calls') > Len(calls) =>
          LET a == calls'[Len(calls')].value
          IN /\ a \notin DOMAIN heap.arrs
             /\ \A k \in 1..Len(heap'.arrs[a]) : heap'.arrs[a][k] \notin DOMAIN heap.objs
             /\ \A c \in DOMAIN calls :
                  Deep(heap', calls[c].value) = Deep(heap, calls[c].value)
     /\ \A c1, c2 \in DOMAIN calls :
          c1 # c2 => \/ Deep(heap', calls[c1].value) = Deep(heap, calls[c1].value)
                     \/ Deep(heap', calls[c2].value) = Deep(heap, calls[c2].value)]_vars

C9_Witness ==
  /\ FEED_INFO_LIST = 0
  /\ Len(calls) = 2
  /\ nOps > 0
  /\ Len(Argument) > 0
  /\ Deep(heap, calls[1].value) # Argument
  /\ Deep(heap, calls[2].value) = Argument

\* C10: the entries of the exported FEED_INFO_LIST are in alphabetical order
\* of their labels.
C10_ExportedSortedByLabel ==
  Exported =>
    \A k \in 1..(Len(ExportedList) - 1) :
      LabelLE(ExportedList[k].label, ExportedList[k + 1].label)
====
